---- MODULE Spec2Model ----
(***************************************************************************)
(* A model of routes.py: the filter registry (Filters, MetaFilter), the    *)
(* rule tokenizer (Rule._eval), the rule compiler (Rule.process_rule), the *)
(* matcher (Path.match) and the route list (TornadoRoute.add).             *)
(*                                                                         *)
(* A Python string is a sequence of one-character strings; None is the     *)
(* value NoneVal, which is no Python string of the model.  A value that is *)
(* used more than once is passed on as an operator's argument.             *)
(***************************************************************************)
EXTENDS Integers, Sequences, FiniteSets, TLC

\* ------------------------------------------------------------------------
\* Strings
\* ------------------------------------------------------------------------

NoneVal == <<"None">>

BS == "\\"

Lower == {"a","b","c","d","e","f","g","h","i","j","k","l","m",
          "n","o","p","q","r","s","t","u","v","w","x","y","z"}

Upper == {"P"}

Digits == {"0","1","2","3","4","5","6","7","8","9"}

\* [a-zA-Z_]
NameStart == Lower \cup Upper \cup {"_"}

\* [a-zA-Z_0-9]
NameChars == NameStart \cup Digits

\* [a-zA-Z0-9], the characters re.escape leaves alone
Alnum == Lower \cup Upper \cup Digits

\* The index of the first character at or after i that is not in S
\* (Len(s) + 1 when there is none).
RECURSIVE RunWhile(_, _, _)
RunWhile(s, i, S) ==
  IF i <= Len(s) /\ s[i] \in S THEN RunWhile(s, i + 1, S) ELSE i

\* The index of the first occurrence of character c at or after i
\* (Len(s) + 1 when there is none).
RECURSIVE IndexOf(_, _, _)
IndexOf(s, i, c) ==
  IF i <= Len(s) /\ s[i] # c THEN IndexOf(s, i + 1, c) ELSE i

\* The characters at positions i .. j-1.
Slice(s, i, j) == SubSeq(s, i, j - 1)

\* The same, or None for a group that matched nothing.
OptSlice(s, i, j) == IF j > i THEN SubSeq(s, i, j - 1) ELSE NoneVal

\* Python's truth value of a string or None, and `x or y'.
Falsy(x) == x = NoneVal \/ x = << >>

Truthy(x) == ~Falsy(x)

OrElse(x, y) == IF Falsy(x) THEN y ELSE x

\* ------------------------------------------------------------------------
\* Rule.rule_syntax and Rule._eval
\* ------------------------------------------------------------------------

\* The groups of one rule_syntax match after the backslashes: where it
\* ends, and the (name, filter, conf) that `g[1:4] if not g[2] is None else
\* g[4:7]' selects.
Groups(end, name, filtr, conf) ==
  [ok |-> TRUE, end |-> end, name |-> name, filtr |-> filtr, conf |-> conf]

NoSyntaxMatch ==
  [ok |-> FALSE, end |-> 0, name |-> NoneVal, filtr |-> NoneVal,
   conf |-> NoneVal]

\* The end of an optional name [a-zA-Z_][a-zA-Z_0-9]* after the sigil at m.
NameEnd(s, m) ==
  IF m + 1 <= Len(s) /\ s[m + 1] \in NameStart
  THEN RunWhile(s, m + 2, NameChars) ELSE m + 1

\* The short form  :name#conf#  at the sigil position m (s[m] = ":"), the
\* name ending at q and the closing "#" found at q2.  Group 3 is the empty
\* group (), so the filter is ''.
ShortConf(s, m, q, q2) ==
  IF q2 <= Len(s)
  THEN Groups(q2 + 1, OptSlice(s, m + 1, q), << >>, Slice(s, q + 1, q2))
  ELSE Groups(q, OptSlice(s, m + 1, q), << >>, NoneVal)

ShortName(s, m, q) ==
  ShortConf(s, m, q,
            IF q <= Len(s) /\ s[q] = "#" THEN IndexOf(s, q + 1, "#")
            ELSE Len(s) + 1)

ShortForm(s, m) == ShortName(s, m, NameEnd(s, m))

\* The end of the configuration (?:\\.|[^\\>]+)+ started at k: the index of
\* the first character that neither alternative can consume.
RECURSIVE ConfEnd(_, _)
ConfEnd(s, k) ==
  IF k > Len(s) \/ s[k] = ">" THEN k
  ELSE IF s[k] = BS
       THEN IF k + 1 <= Len(s) THEN ConfEnd(s, k + 2) ELSE k
       ELSE ConfEnd(s, k + 1)

\* The long form  <name:filter:conf>  at the sigil position m (s[m] = "<"),
\* the name ending at q, the filter at q2 and the configuration at q3.
LongConf(s, m, q, q2, q3) ==
  IF q3 <= Len(s) /\ s[q3] = ">"
  THEN Groups(q3 + 1, OptSlice(s, m + 1, q), Slice(s, q + 1, q2),
              OptSlice(s, q2 + 1, q3))
  ELSE NoSyntaxMatch

LongFilter(s, m, q, q2) ==
  IF q2 > Len(s) THEN NoSyntaxMatch
  ELSE IF s[q2] = ">"
  THEN Groups(q2 + 1, OptSlice(s, m + 1, q), Slice(s, q + 1, q2), NoneVal)
  ELSE IF s[q2] = ":" THEN LongConf(s, m, q, q2, ConfEnd(s, q2 + 1))
  ELSE NoSyntaxMatch

LongName(s, m, q) ==
  IF q > Len(s) THEN NoSyntaxMatch
  ELSE IF s[q] = ">"
  THEN Groups(q + 1, OptSlice(s, m + 1, q), NoneVal, NoneVal)
  ELSE IF s[q] = ":" THEN LongFilter(s, m, q, RunWhile(s, q + 1, NameStart))
  ELSE NoSyntaxMatch

LongForm(s, m) == LongName(s, m, NameEnd(s, m))

\* The alternation of rule_syntax at the sigil position m.
MarkerAt(s, m) ==
  IF m > Len(s) THEN NoSyntaxMatch
  ELSE IF s[m] = ":" THEN ShortForm(s, m)
  ELSE IF s[m] = "<" THEN LongForm(s, m)
  ELSE NoSyntaxMatch

\* finditer: the leftmost position at or after pos where rule_syntax
\* matches: the run (\\*) of backslashes from pos to m, then a marker.
\* g0 is len(g[0]).
RECURSIVE FindNext(_, _)
FindStep(s, pos, m, g) ==
  IF g.ok \/ pos > Len(s)
  THEN [ok |-> g.ok, start |-> pos, g0 |-> m - pos, end |-> g.end,
        name |-> g.name, filtr |-> g.filtr, conf |-> g.conf]
  ELSE FindNext(s, pos + 1)

FindMark(s, pos, m) == FindStep(s, pos, m, MarkerAt(s, m))

FindNext(s, pos) == FindMark(s, pos, RunWhile(s, pos, {BS}))

Literal(text) == [key |-> text, mode |-> NoneVal, conf |-> NoneVal]

Dynamic(name, filtr, conf) == [key |-> name, mode |-> filtr, conf |-> conf]

DefaultName == <<"d","e","f","a","u","l","t">>

\* What an escaped marker would add to the prefix if one backslash of the
\* run were dropped.
EscapedTextDropOne(s, r) == Slice(s, r.start + 1, r.end)

\* What an escaped marker adds to the prefix: match.group(0)[len(g[0]):].
EscapedText(s, r) == Slice(s, r.start + r.g0, r.end)

\* The loop of _eval from the position `offset' with the pending `prefix';
\* r is the next match and pre the prefix with the text before it.
RECURSIVE EvalFrom(_, _, _)
EvalMatch(s, r, pre) ==
  IF r.g0 % 2 = 1
  THEN EvalFrom(s, r.end, pre \o EscapedText(s, r))
  ELSE (IF pre # << >> THEN << Literal(pre) >> ELSE << >>)
       \o << Dynamic(r.name, OrElse(r.filtr, DefaultName),
                     OrElse(r.conf, NoneVal)) >>
       \o EvalFrom(s, r.end, << >>)

EvalFound(s, offset, prefix, r) ==
  IF ~r.ok THEN << Literal(prefix \o Slice(s, offset, Len(s) + 1)) >>
  ELSE EvalMatch(s, r, prefix \o Slice(s, offset, r.start))

EvalFrom(s, offset, prefix) == EvalFound(s, offset, prefix, FindNext(s, offset))

\* Rule._eval(rule): the token stream.
Eval(rule) == EvalFrom(rule, 1, << >>)

\* ------------------------------------------------------------------------
\* Filters, MetaFilter and the built-in filters
\* ------------------------------------------------------------------------

ReFilter == "ReFilter"

IntFilter == "IntFilter"

FloatFilter == "FloatFilter"

PathFilter == "PathFilter"

FilterClasses == {ReFilter, IntFilter, FloatFilter, PathFilter}

\* The converters a filter's parse can return: the builtins int and float,
\* or None.
IntConv == "int"

FloatConv == "float"

NoConv == "None"

\* ReFilter.parse, IntFilter.parse, FloatFilter.parse, PathFilter.parse:
\* the pair (mask, converter).
ReFilterParse(conf) ==
  [mask |-> OrElse(conf, <<"[","^","/","]","+">>), conv |-> NoConv]

\* IntFilter.parse, had it returned the default mask.
IntFilterParseAnySegment(conf) ==
  [mask |-> <<"[","^","/","]","+">>, conv |-> IntConv]

IntFilterParse(conf) ==
  [mask |-> <<"-","?",BS,"d","+">>, conv |-> IntConv]

FloatFilterParse(conf) ==
  [mask |-> <<"-","?","[",BS,"d",".","]","+">>, conv |-> FloatConv]

PathFilterParse(conf) ==
  [mask |-> <<".","+","?">>, conv |-> NoConv]

ClassParse(cls, conf) ==
  CASE cls = ReFilter    -> ReFilterParse(conf)
    [] cls = IntFilter   -> IntFilterParse(conf)
    [] cls = FloatFilter -> FloatFilterParse(conf)
    [] cls = PathFilter  -> PathFilterParse(conf)

\* Filters.register, had it kept an earlier registration of the name.
FiltersRegisterIfAbsent(tys, a_type, filter_mixin) ==
  [n \in DOMAIN tys \cup {a_type} |->
     IF n \in DOMAIN tys THEN tys[n] ELSE filter_mixin]

\* Filters.register(a_type, filter_mixin) on the dictionary Filters.types.
FiltersRegister(tys, a_type, filter_mixin) ==
  [n \in DOMAIN tys \cup {a_type} |->
     IF n = a_type THEN filter_mixin ELSE tys[n]]

\* The names MetaFilter.__init__ registers a class under, in order:
\* name[:-6].lower(), then each alias.
ReName == <<"r","e">>

IntName == <<"i","n","t">>

FloatName == <<"f","l","o","a","t">>

PathName == <<"p","a","t","h">>

MetaFilterNames(cls) ==
  CASE cls = ReFilter    -> << ReName, DefaultName >>
    [] cls = IntFilter   -> << IntName >>
    [] cls = FloatFilter -> << FloatName >>
    [] cls = PathFilter  -> << PathName >>

RECURSIVE RegisterAll(_, _, _)
RegisterAll(tys, names, cls) ==
  IF names = << >> THEN tys
  ELSE RegisterAll(FiltersRegister(tys, Head(names), cls), Tail(names), cls)

\* MetaFilter.__init__ for one class statement.
MetaFilterInit(tys, cls) == RegisterAll(tys, MetaFilterNames(cls), cls)

\* Filters.types once the module is imported: the four class statements in
\* source order.
BuiltinTypes ==
  MetaFilterInit(MetaFilterInit(MetaFilterInit(MetaFilterInit(
    << >>, ReFilter), IntFilter), FloatFilter), PathFilter)

KeyError == "KeyError"

\* Filters.fetch(a_type): the class, or KeyError.
FiltersFetch(tys, a_type) ==
  IF a_type \in DOMAIN tys THEN tys[a_type] ELSE KeyError

\* Filters.parse(a_type, conf): the pair (mask, converter), or KeyError.
FiltersParse(tys, a_type, conf) ==
  IF a_type \in DOMAIN tys THEN ClassParse(tys[a_type], conf)
  ELSE [mask |-> NoneVal, conv |-> KeyError]

\* ------------------------------------------------------------------------
\* The re module, as far as routes.py uses it
\* ------------------------------------------------------------------------

\* re.escape (Python 2): a backslash before every non-alphanumeric.
RECURSIVE ReEscape(_)
ReEscape(s) ==
  IF s = << >> THEN << >>
  ELSE (IF Head(s) \in Alnum THEN << Head(s) >> ELSE << BS, Head(s) >>)
       \o ReEscape(Tail(s))

\* The end of a character class whose first member is at k: the index of
\* its "]", Len(p) + 1 if it is not terminated, 0 for a range, which this
\* model does not cover.
RECURSIVE ClassEnd(_, _)
ClassEnd(p, k) ==
  IF k > Len(p) THEN k
  ELSE IF p[k] = "]" THEN k
  ELSE IF p[k] = "-" THEN 0
  ELSE IF p[k] = BS THEN ClassEnd(p, k + 2)
  ELSE ClassEnd(p, k + 1)

\* The first member of the class opened at p[i] = "[", past a leading "^".
ClassStart(p, i) == IF i + 1 <= Len(p) /\ p[i + 1] = "^" THEN i + 2 ELSE i + 1

\* A group name is an identifier not yet used.
GroupNameOk(nm, names) ==
  /\ nm # << >>
  /\ nm[1] \in NameStart
  /\ RunWhile(nm, 1, NameChars) > Len(nm)
  /\ nm \notin names

\* sre_parse over the pattern p from index i: "ok" when re.compile(p)
\* succeeds, "error" when it raises re.error, "unsupported" for syntax this
\* model does not cover.  depth counts the open groups, names holds the
\* group names seen, prev tells what a repeat operator would apply to.
RECURSIVE ReScan(_, _, _, _, _)
\* (?P<name> with the ">" found at k
ScanNamed(p, i, depth, names, k, nm) ==
  IF k > Len(p) \/ ~GroupNameOk(nm, names) THEN "error"
  ELSE ReScan(p, k + 1, depth + 1, names \cup {nm}, "none")

ScanNamedTo(p, i, depth, names, k) ==
  ScanNamed(p, i, depth, names, k, Slice(p, i + 4, k))

\* ( at p[i]
ScanGroup(p, i, depth, names) ==
  IF i + 1 <= Len(p) /\ p[i + 1] = "?"
  THEN IF i + 2 > Len(p) THEN "error"
       ELSE IF p[i + 2] = ":" THEN ReScan(p, i + 3, depth + 1, names, "none")
       ELSE IF p[i + 2] = "P" /\ i + 3 <= Len(p) /\ p[i + 3] = "<"
       THEN ScanNamedTo(p, i, depth, names, IndexOf(p, i + 4, ">"))
       ELSE "unsupported"
  ELSE ReScan(p, i + 1, depth + 1, names, "none")

\* [ at p[i], its first member at k0 and its "]" at k
ScanClass(p, i, depth, names, k0, k) ==
  IF k = 0 \/ k = k0 THEN "unsupported"
  ELSE IF k > Len(p) THEN "error"
  ELSE ReScan(p, k + 1, depth, names, "atom")

ScanClassFrom(p, i, depth, names, k0) ==
  ScanClass(p, i, depth, names, k0, ClassEnd(p, k0))

\* ?, * or + at p[i]
ScanRepeat(p, i, depth, names, prev) ==
  IF prev = "none" THEN "error"
  ELSE IF prev = "group" THEN "unsupported"
  ELSE IF prev = "atom" THEN ReScan(p, i + 1, depth, names, "quant")
  ELSE IF prev = "quant" /\ p[i] = "?"
  THEN ReScan(p, i + 1, depth, names, "lazy")
  ELSE "error"

ReScan(p, i, depth, names, prev) ==
  IF i > Len(p) THEN (IF depth = 0 THEN "ok" ELSE "error")
  ELSE CASE p[i] = BS ->
              IF i = Len(p) THEN "error"
              ELSE IF p[i + 1] \in Alnum \ {"d", "a"} THEN "unsupported"
              ELSE ReScan(p, i + 2, depth, names, "atom")
         [] p[i] = "(" -> ScanGroup(p, i, depth, names)
         [] p[i] = ")" ->
              IF depth = 0 THEN "error"
              ELSE ReScan(p, i + 1, depth - 1, names, "group")
         [] p[i] = "[" -> ScanClassFrom(p, i, depth, names, ClassStart(p, i))
         [] p[i] \in {"?", "*", "+"} -> ScanRepeat(p, i, depth, names, prev)
         [] p[i] \in {"^", "$"} -> ReScan(p, i + 1, depth, names, "none")
         [] p[i] \in {"{", "}", "|", "]"} -> "unsupported"
         [] OTHER -> ReScan(p, i + 1, depth, names, "atom")

\* re.compile(p): "ok", "error" (re.error) or "unsupported".
ReCompile(p) == ReScan(p, 1, 0, {}, "none")

\* Whether the members p[k .. kend-1] of a character class hold c.
RECURSIVE InClass(_, _, _, _)
InClass(p, k, kend, c) ==
  IF k >= kend THEN FALSE
  ELSE IF p[k] = BS
       THEN (IF p[k + 1] = "d" THEN c \in Digits ELSE c = p[k + 1])
            \/ InClass(p, k + 2, kend, c)
       ELSE c = p[k] \/ InClass(p, k + 1, kend, c)

\* The length of the one-character item at p[i]: an escape, a class, the
\* dot or a literal.
ItemLen(p, i) ==
  IF p[i] = BS THEN 2
  ELSE IF p[i] = "[" THEN ClassEnd(p, ClassStart(p, i)) - i + 1
  ELSE 1

ClassMatches(p, i, c, k0) ==
  (k0 = i + 2) # InClass(p, k0, ClassEnd(p, k0), c)

\* Whether the item at p[i] matches the character c.
ItemMatches(p, i, c) ==
  IF p[i] = BS
  THEN IF p[i + 1] = "d" THEN c \in Digits
       ELSE IF p[i + 1] = "a" THEN FALSE   \* the BEL character
       ELSE c = p[i + 1]
  ELSE IF p[i] = "[" THEN ClassMatches(p, i, c, ClassStart(p, i))
  ELSE IF p[i] = "." THEN TRUE
  ELSE c = p[i]

\* How many characters of t from position j on the item at p[i] matches in a
\* row, at most `most'.
RECURSIVE ItemRun(_, _, _, _, _)
ItemRun(p, i, t, j, most) ==
  IF most = 0 \/ j > Len(t) \/ ~ItemMatches(p, i, t[j]) THEN 0
  ELSE 1 + ItemRun(p, i, t, j + 1, most - 1)

NoMatch == [ok |-> FALSE, caps |-> << >>]

\* The backtracking matcher of a compiled pattern: p from index i against t
\* from position j.  open is the stack of the groups entered and not yet
\* left, each with its name (or None) and the position it was entered at;
\* caps is the groupdict so far.
RECURSIVE ReMatchFrom(_, _, _, _, _, _)
RECURSIVE ReTry(_, _, _, _, _, _, _, _, _)
\* A repeat tries its counts k in the engine's order, up to `last': longest
\* first (step -1), or shortest first for a lazy one (step 1).
ReTried(p, inext, t, j, k, last, step, open, caps, r) ==
  IF r.ok THEN r
  ELSE IF k = last THEN NoMatch
  ELSE ReTry(p, inext, t, j, k + step, last, step, open, caps)

ReTry(p, inext, t, j, k, last, step, open, caps) ==
  ReTried(p, inext, t, j, k, last, step, open, caps,
          ReMatchFrom(p, inext, t, j + k, open, caps))

\* The item at p[i] with its repeat: at least `least' and at most `run'
\* characters, the pattern going on at inext.
MatchRun(p, inext, t, j, open, caps, least, lazy, run) ==
  IF run < least THEN NoMatch
  ELSE IF lazy THEN ReTry(p, inext, t, j, least, run, 1, open, caps)
  ELSE ReTry(p, inext, t, j, run, least, -1, open, caps)

\* q is the character after the item (its repeat operator, if one)
MatchRepeat(p, i, t, j, open, caps, q, lazy, inext) ==
  MatchRun(p, inext, t, j, open, caps,
           IF q \in {"?", "*"} THEN 0 ELSE 1, lazy,
           ItemRun(p, i, t, j, IF q \in {"*", "+"} THEN Len(t) ELSE 1))

MatchLazy(p, i, t, j, open, caps, q, inext, lazy) ==
  MatchRepeat(p, i, t, j, open, caps, q, lazy,
              IF lazy THEN inext + 1 ELSE inext)

MatchQuant(p, i, t, j, open, caps, q, inext) ==
  MatchLazy(p, i, t, j, open, caps, q, inext,
            inext <= Len(p) /\ p[inext] = "?" /\ q \in {"?", "*", "+"})

MatchItemLen(p, i, t, j, open, caps, n, q) ==
  MatchQuant(p, i, t, j, open, caps, q,
             IF q \in {"?", "*", "+"} THEN i + n + 1 ELSE i + n)

MatchItem(p, i, t, j, open, caps, n) ==
  MatchItemLen(p, i, t, j, open, caps, n,
               IF i + n <= Len(p) THEN p[i + n] ELSE "")

\* ( at p[i]: the group is pushed with its name, if it has one
MatchNamed(p, i, t, j, open, caps, k) ==
  ReMatchFrom(p, k + 1, t, j, << <<Slice(p, i + 4, k), j>> >> \o open, caps)

MatchGroup(p, i, t, j, open, caps) ==
  IF i + 1 <= Len(p) /\ p[i + 1] = "?"
  THEN IF p[i + 2] = ":"
       THEN ReMatchFrom(p, i + 3, t, j, << <<NoneVal, j>> >> \o open, caps)
       ELSE MatchNamed(p, i, t, j, open, caps, IndexOf(p, i + 4, ">"))
  ELSE ReMatchFrom(p, i + 1, t, j, << <<NoneVal, j>> >> \o open, caps)

\* ) at p[i]: the group g is left, and captured if it is named
MatchClose(p, i, t, j, open, caps, g) ==
  ReMatchFrom(p, i + 1, t, j, Tail(open),
              IF g[1] = NoneVal THEN caps
              ELSE (g[1] :> Slice(t, g[2], j)) @@ caps)

ReMatchFrom(p, i, t, j, open, caps) ==
  IF i > Len(p) THEN [ok |-> TRUE, caps |-> caps]
  ELSE CASE p[i] = "^" ->
              IF j = 1 THEN ReMatchFrom(p, i + 1, t, j, open, caps)
              ELSE NoMatch
         [] p[i] = "$" ->
              IF j = Len(t) + 1 THEN ReMatchFrom(p, i + 1, t, j, open, caps)
              ELSE NoMatch
         [] p[i] = "(" -> MatchGroup(p, i, t, j, open, caps)
         [] p[i] = ")" -> MatchClose(p, i, t, j, open, caps, Head(open))
         [] OTHER -> MatchItem(p, i, t, j, open, caps, ItemLen(p, i))

\* re.compile(p).match(t) for a pattern that compiles: NoMatch for None,
\* else the match's groupdict().
ReMatch(p, t) == ReMatchFrom(p, 1, t, 1, << >>, << >>)

\* The pattern of the re.sub call in process_rule,
\*   (\\*)(\(\?P<[^>]*>|\((?!\?)),
\* matched at position st of p, the backslashes ending at m: the end of the
\* match (0 if none) and the length of group 1.
NameGroupNamed(p, st, m, k) ==
  IF k <= Len(p) THEN [end |-> k + 1, g1 |-> m - st]
  ELSE [end |-> 0, g1 |-> 0]

NameGroupMark(p, st, m) ==
  IF m > Len(p) \/ p[m] # "(" THEN [end |-> 0, g1 |-> 0]
  ELSE IF m + 1 <= Len(p) /\ p[m + 1] = "?"
  THEN IF m + 3 <= Len(p) /\ p[m + 2] = "P" /\ p[m + 3] = "<"
       THEN NameGroupNamed(p, st, m, IndexOf(p, m + 4, ">"))
       ELSE [end |-> 0, g1 |-> 0]
  ELSE [end |-> m + 1, g1 |-> m - st]

NameGroupAt(p, st) == NameGroupMark(p, st, RunWhile(p, st, {BS}))

\* subs(m), had it left named groups as they are.
SubsKeepNamed(p, st, r) ==
  IF r.g1 % 2 = 1 \/ r.end > st + r.g1 + 1 THEN Slice(p, st, r.end)
  ELSE Slice(p, st, st + r.g1) \o <<"(","?",":">>

\* subs(m): m.group(0) if len(m.group(1)) % 2 else m.group(1) + '(?:'.
Subs(p, st, r) ==
  IF r.g1 % 2 = 1 THEN Slice(p, st, r.end)
  ELSE Slice(p, st, st + r.g1) \o <<"(","?",":">>

\* re.sub(r'(\\*)(\(\?P<[^>]*>|\((?!\?))', subs, pattern) from position i.
RECURSIVE ReSubFrom(_, _)
ReSubAt(p, i, r) ==
  IF r.end = 0 THEN << p[i] >> \o ReSubFrom(p, i + 1)
  ELSE Subs(p, i, r) \o ReSubFrom(p, r.end)

ReSubFrom(p, i) ==
  IF i > Len(p) THEN << >> ELSE ReSubAt(p, i, NameGroupAt(p, i))

ReSubName(pattern) == ReSubFrom(pattern, 1)

\* ------------------------------------------------------------------------
\* Rule.process_rule
\* ------------------------------------------------------------------------

\* process_key(key, mode, conf), given the mask Filters.parse returned.
ProcessKey(key, mode, mask) ==
  IF Truthy(mode)
  THEN IF Truthy(key)
       THEN <<"(","?","P","<">> \o key \o <<">">> \o mask \o <<")">>
       ELSE <<"(","?",":">> \o mask \o <<")">>
  ELSE IF Truthy(key) THEN ReEscape(key)
  ELSE << >>

\* is_static = is_static and mode
IsStaticStep(is_static, mode) == is_static /\ Truthy(mode)

\* filters.setdefault(key, conv)
SetDefault(filters, key, conv) ==
  IF key \in DOMAIN filters THEN filters ELSE (key :> conv) @@ filters

\* The filters update of the loop, had it been made for every dynamic
\* token, named or not.
FiltersStepAnyKey(filters, key, mode, conv) ==
  IF Truthy(mode) THEN SetDefault(filters, key, conv) ELSE filters

\* in_filter = key and mode; in_filter and filters.setdefault(key, ...)
FiltersStep(filters, key, mode, conv) ==
  IF Truthy(key) /\ Truthy(mode) THEN SetDefault(filters, key, conv)
  ELSE filters

\* The loop `for key, mode, conf in cls._eval(rule)' from token k on; acc is
\* (is_static, pattern, filters).  A KeyError of Filters.parse ends it.
RECURSIVE RuleLoop(_, _, _, _)
RuleStep(tys, toks, k, acc, tok, fp) ==
  IF fp.conv = KeyError THEN [acc EXCEPT !.status = KeyError]
  ELSE RuleLoop(tys, toks, k + 1,
         [status    |-> "ok",
          is_static |-> IsStaticStep(acc.is_static, tok.mode),
          pattern   |-> acc.pattern \o ProcessKey(tok.key, tok.mode, fp.mask),
          filters   |-> FiltersStep(acc.filters, tok.key, tok.mode, fp.conv)])

RuleToken(tys, toks, k, acc, tok) ==
  RuleStep(tys, toks, k, acc, tok,
           IF Truthy(tok.mode) THEN FiltersParse(tys, tok.mode, tok.conf)
           ELSE [mask |-> << >>, conv |-> NoConv])

RuleLoop(tys, toks, k, acc) ==
  IF k > Len(toks) THEN acc ELSE RuleToken(tys, toks, k, acc, toks[k])

\* regex = '^(%s)$' % pattern
Anchor(pattern) == <<"^","(">> \o pattern \o <<")","$">>

RuleSyntaxError == "RuleSyntaxError"

Raised(what) ==
  [status |-> what, name |-> << >>, regex |-> << >>, filters |-> << >>]

\* The try block: rc is what re.compile(name) does.
RuleChecked(acc, name, rc) ==
  IF rc = "ok"
  THEN [status |-> "ok", name |-> name, regex |-> Anchor(acc.pattern),
        filters |-> acc.filters]
  ELSE Raised(IF rc = "error" THEN RuleSyntaxError ELSE "unsupported")

RuleNamed(acc, name) == RuleChecked(acc, name, ReCompile(name))

\* The rest of process_rule after the loop.
RuleDone(rule, acc) ==
  IF acc.status = KeyError THEN Raised(KeyError)
  ELSE IF acc.is_static
  THEN [status |-> "ok", name |-> rule, regex |-> rule,
        filters |-> acc.filters]
  ELSE RuleNamed(acc, ReSubName(acc.pattern))

\* Rule.process_rule over the token stream of `rule': the list
\* [name, regex, filters], or the exception raised.
ProcessTokens(tys, rule, toks) ==
  RuleDone(rule, RuleLoop(tys, toks, 1,
                          [status |-> "ok", is_static |-> TRUE,
                           pattern |-> << >>, filters |-> << >>]))

ProcessRule(tys, rule) == ProcessTokens(tys, rule, Eval(rule))

\* ------------------------------------------------------------------------
\* Path.match
\* ------------------------------------------------------------------------

DigitChars == <<"0","1","2","3","4","5","6","7","8","9">>

RECURSIVE DigitsValue(_, _)
DigitsValue(s, acc) ==
  IF s = << >> THEN acc
  ELSE DigitsValue(Tail(s),
         10 * acc + (CHOOSE d \in 0..9 : Head(s) = DigitChars[d + 1]))

Unsigned(s) == IF s # << >> /\ Head(s) = "-" THEN Tail(s) ELSE s

Sign(s) == IF s # << >> /\ Head(s) = "-" THEN -1 ELSE 1

ValueError == "ValueError"

StrValue(raw) == [type |-> "str", val |-> raw]

Rejected == [type |-> ValueError, val |-> 0]

\* int(raw) on a string of signs, digits and dots: the integer, or
\* ValueError.
IntOf(raw, u) ==
  IF u # << >> /\ RunWhile(u, 1, Digits) > Len(u)
  THEN [type |-> "int", val |-> Sign(raw) * DigitsValue(u, 0)]
  ELSE Rejected

PyInt(raw) == IntOf(raw, Unsigned(raw))

\* The digits of s with trailing zeros removed.
RECURSIVE StripZeros(_)
StripZeros(s) ==
  IF s # << >> /\ s[Len(s)] = "0" THEN StripZeros(SubSeq(s, 1, Len(s) - 1))
  ELSE s

\* float(raw) on a string of signs, digits and dots: the number, as the pair
\* (mantissa, number of decimals), or ValueError.  ip and fp are the digits
\* before and after the first dot.
FloatValue(raw, ip, frac) ==
  [type |-> "float",
   val |-> <<Sign(raw) * DigitsValue(ip \o frac, 0), Len(frac)>>]

FloatParts(raw, ip, fp) ==
  IF RunWhile(ip, 1, Digits) > Len(ip) /\ RunWhile(fp, 1, Digits) > Len(fp)
     /\ ip \o fp # << >>
  THEN FloatValue(raw, ip, StripZeros(fp))
  ELSE Rejected

FloatAt(raw, u, dot) ==
  FloatParts(raw, Slice(u, 1, dot), SubSeq(u, dot + 1, Len(u)))

FloatOf(raw, u) == FloatAt(raw, u, IndexOf(u, 1, "."))

PyFloat(raw) == FloatOf(raw, Unsigned(raw))

\* wfilter(args[name]) if wfilter is not None
Convert(conv, raw) ==
  CASE conv = IntConv   -> PyInt(raw)
    [] conv = FloatConv -> PyFloat(raw)
    [] OTHER            -> StrValue(raw)

RouteNotFoundError == "RouteNotFoundError"

ReError == "re.error"

NameError == "NameError"

Outcome(kind, args, name, raw) ==
  [kind |-> kind, args |-> args, name |-> name, raw |-> raw]

\* What the except clause of match does with a ValueError: it builds the
\* message from `value', a name bound nowhere, so a NameError leaves match.
OnValueError(name, raw) == Outcome(NameError, << >>, << >>, << >>)

\* The loop `for name, wfilter in self.filters.iteritems()' and the return:
\* args is the groupdict with every converter applied.
Returned(caps, args, bad) ==
  IF bad # {}
  THEN OnValueError(CHOOSE n \in bad : TRUE, caps[CHOOSE n \in bad : TRUE])
  ELSE Outcome("ok", args, << >>, << >>)

Converted(caps, args) ==
  Returned(caps, args, {n \in DOMAIN args : args[n].type = ValueError})

ApplyFilters(filters, caps) ==
  Converted(caps,
            [n \in DOMAIN caps |->
               IF n \in DOMAIN filters THEN Convert(filters[n], caps[n])
               ELSE StrValue(caps[n])])

\* Path.match from the line `match = self._match_regex.match(path)' on; m
\* is that match.
Matched(pat, p, m) ==
  IF ~m.ok THEN Outcome(RouteNotFoundError, << >>, pat.name, p)
  ELSE ApplyFilters(pat.filters, m.caps)

\* The same for the compiled pattern `regex' read from the cache.
MatchWith(regex, pat, p) == Matched(pat, p, ReMatch(regex, p))

\* self._match_regex = re.compile(self.pattern), then the rest; rc is what
\* re.compile does.
MatchCompiled(pat, p, rc) ==
  IF rc = "ok" THEN MatchWith(pat.regex, pat, p)
  ELSE Outcome(IF rc = "error" THEN ReError ELSE "unsupported",
               << >>, << >>, << >>)

\* Path.match(path) on a Path whose _pattern is pat and whose _match_regex
\* attribute is cache (None while it is unset), no other thread running.
MatchAlone(pat, cache, p) ==
  IF cache # NoneVal THEN MatchWith(cache, pat, p)
  ELSE MatchCompiled(pat, p, ReCompile(pat.regex))

\* ------------------------------------------------------------------------
\* Path.__eq__ and TornadoRoute.add
\* ------------------------------------------------------------------------

\* Path.__eq__(self, other)
PathEq(a, b) == a.name = b.name

\* The class `route' itself, which add's lambda compares each route with:
\* its attribute `name' is the property object of Path, no string.
PropertyObject == <<"<property>">>

RouteClass == [name |-> PropertyObject]

\* TornadoRoute.add(handler)
TornadoAdd(rs, handler) ==
  IF ~handler.override /\ \E i \in 1..Len(rs) : PathEq(rs[i], RouteClass)
  THEN rs
  ELSE Append(rs, handler)

\* ------------------------------------------------------------------------
\* Inputs
\* ------------------------------------------------------------------------

\* All concatenations of at most n pieces of P.
RECURSIVE Concats(_, _)
Concats(n, P) ==
  IF n = 0 THEN {<< >>}
  ELSE {t \o c : t \in Concats(n - 1, P), c \in P \cup {<< >>}}

RECURSIVE Repeat(_, _)
Repeat(c, n) == IF n = 0 THEN << >> ELSE << c >> \o Repeat(c, n - 1)

MaxCompilePieces == 3

MaxBackslashes == 3

MaxMatchPieces == 2

MaxPathPieces == 2

MaxRegisterCalls == 2

MaxRoutes == 2

NumThreads == 2

\* The pieces the rules given to Path() are made of.
CompilePieces ==
  { <<BS>>, <<":">>, <<"<">>, <<">">>, <<"#">>, <<"a">>, <<"/">>, <<"(">>,
    <<")">>, <<"(","?",":">>, <<"<","b",">">>,
    <<"<","a",":","i","n","t",">">>, <<"<",":","p","a","t","h",">">>,
    <<"<","b",":","n","o",">">>, <<"<","a",":",":","(","a",")",">">> }

\* A marker with the dynamic token it stands for.
Markers ==
  { [text |-> <<":">>,
     tok  |-> Dynamic(NoneVal, DefaultName, NoneVal)],
    [text |-> <<":","b">>,
     tok  |-> Dynamic(<<"b">>, DefaultName, NoneVal)],
    [text |-> <<":","b","#","a","#">>,
     tok  |-> Dynamic(<<"b">>, DefaultName, <<"a">>)],
    [text |-> <<"<",">">>,
     tok  |-> Dynamic(NoneVal, DefaultName, NoneVal)],
    [text |-> <<"<","b",">">>,
     tok  |-> Dynamic(<<"b">>, DefaultName, NoneVal)],
    [text |-> <<"<","b",":","i","n","t",">">>,
     tok  |-> Dynamic(<<"b">>, IntName, NoneVal)],
    [text |-> <<"<",":","p","a","t","h",":","a",">">>,
     tok  |-> Dynamic(NoneVal, PathName, <<"a">>)] }

\* Literal text free of markers and backslashes, before and after a marker.
Befores == { << >>, <<"a">>, <<"/","a","/">> }

Afters == { << >>, <<"/">>, <<"/","a">> }

\* A marker behind a run of n backslashes, between literal text.
RunRule(pre, n, m, post) == pre \o Repeat(BS, n) \o m.text \o post

RunRules ==
  { RunRule(pre, n, m, post) :
      pre \in Befores, n \in 0..MaxBackslashes, m \in Markers, post \in Afters }

CompileRules == Concats(MaxCompilePieces, CompilePieces) \cup RunRules

\* The pieces of the rules that are matched against paths.
IntSegment == <<"<","n",":","i","n","t",">">>

FloatSegment == <<"<","f",":","f","l","o","a","t",">">>

MatchPieces ==
  { <<"/","x","/">>, IntSegment, FloatSegment,
    <<"<",":","p","a","t","h",">">>, <<"<","a",">">>,
    <<":","a","#","(","?","P","<","b",">",".",")","#">> }

MatchRules == Concats(MaxMatchPieces, MatchPieces)

PathPieces ==
  { <<"/","x","/">>, <<"4","2">>, <<"a","b","c">>, <<"1",".","2",".","3">>,
    <<".">>, <<"-","7">>, <<"1",".","5","0">> }

Paths == Concats(MaxPathPieces, PathPieces)

\* The routes and paths of the threads.
ThreadRules ==
  { <<"/">> \o IntSegment, <<"/">> \o FloatSegment, <<"/","x">>,
    <<"<","a",">","<","a",">">> }

ThreadPaths == { <<"/","7">>, <<"/",".">>, <<"/","x">> }

\* The names and classes Filters.register is called with.
RegisterNames == { DefaultName, IntName, <<"n","o">> }

\* The rules of the routes that are added to the route list.
RouteRules ==
  { <<"/","a">>,
    <<"/","<","a",">">>, <<"/","<","b",">">>, <<"/","<",">">>,
    <<"/",":","a">>,
    <<"/","<","a",":","i","n","t",">">>, <<"/","<","b",":","i","n","t",">">>,
    <<"<","a",":",":","(","x",")",">">>,
    <<"<","b",":",":","(","?",":","x",")",">">>,
    <<"<",":",":","(","x",")",">">>,
    <<"<","a",":",":",BS,"(","x",">">>,
    <<"<","b",":",":",BS,"(","?",":","x",">">>,
    <<"<","a",":",":",BS,BS,"(","x",")",">">>,
    <<"<",":",":",BS,BS,"(","?",":","x",")",">">> }

\* ------------------------------------------------------------------------
\* State
\* ------------------------------------------------------------------------

Threads == 1..NumThreads

VARIABLES
  types,        \* Filters.types
  calls,        \* the Filters.register calls made, in order: <<name, class>>
  fetched,      \* what the last Filters.fetch or Filters.parse call gave
  self,         \* the Path object: its _rule, its _pattern, its _override
  tokens,       \* the token stream _eval gave process_rule for it
  match_regex,  \* self._match_regex: NoneVal while the attribute is unset
  pc,           \* where each thread is in Path.match
  path,         \* the path each thread's match call was given
  result,       \* what each thread's match call returned or raised
  routes        \* TornadoRoute._routes

vars == <<types, calls, fetched, self, tokens, match_regex, pc, path, result,
          routes>>

NoPath == [rule |-> << >>, status |-> "absent", name |-> << >>,
           regex |-> << >>, filters |-> << >>, override |-> TRUE]

NoResult == Outcome("none", << >>, << >>, << >>)

NoFetch == [op |-> "none", name |-> << >>, value |-> NoneVal, at |-> 0]

\* The register calls of the four class statements, in source order.
RECURSIVE CallsOf(_, _)
CallsOf(names, cls) ==
  IF names = << >> THEN << >>
  ELSE << <<Head(names), cls>> >> \o CallsOf(Tail(names), cls)

BuiltinCalls ==
  CallsOf(MetaFilterNames(ReFilter), ReFilter)
  \o CallsOf(MetaFilterNames(IntFilter), IntFilter)
  \o CallsOf(MetaFilterNames(FloatFilter), FloatFilter)
  \o CallsOf(MetaFilterNames(PathFilter), PathFilter)

\* The state once routes.py is imported.
Init ==
  /\ types = BuiltinTypes
  /\ calls = BuiltinCalls
  /\ fetched = NoFetch
  /\ self = NoPath
  /\ tokens = << >>
  /\ match_regex = NoneVal
  /\ pc = [t \in Threads |-> "idle"]
  /\ path = [t \in Threads |-> << >>]
  /\ result = [t \in Threads |-> NoResult]
  /\ routes = << >>

\* Path.__init__(rule) / route.__init__(rule, override=override): pr is
\* what process_rule returned or raised.
NewPath(rule, override, pr) ==
  [rule |-> rule, status |-> pr.status, name |-> pr.name,
   regex |-> pr.regex, filters |-> pr.filters, override |-> override]

Construct(rule, override, toks) ==
  /\ self' = NewPath(rule, override, ProcessTokens(types, rule, toks))
  /\ tokens' = toks

PathInit(rule) ==
  /\ self.status = "absent"
  /\ Construct(rule, TRUE, Eval(rule))
  /\ UNCHANGED <<types, calls, fetched, match_regex, pc, path, result, routes>>

\* What match compiles for the cache, had it been the route's name.
CacheSourceName(pat) == pat.name

\* re.compile(self.pattern)
CacheSource(pat) == pat.regex

\* if not hasattr(self, '_match_regex'):
\*     self._match_regex = re.compile(self.pattern)
CacheAfter(cache, pat) ==
  IF cache = NoneVal /\ ReCompile(pat.regex) = "ok" THEN CacheSource(pat)
  ELSE cache

\* One whole call self.match(p) by thread t, no other thread running.
Match(t, p) ==
  /\ self.status = "ok"
  /\ pc[t] = "idle"
  /\ match_regex' = CacheAfter(match_regex, self)
  /\ path' = [path EXCEPT ![t] = p]
  /\ result' = [result EXCEPT ![t] = MatchAlone(self, match_regex, p)]
  /\ pc' = [pc EXCEPT ![t] = "done"]
  /\ UNCHANGED <<types, calls, fetched, self, tokens, routes>>

\* Rules are compiled into Path objects.
CompileNext == \E r \in CompileRules : PathInit(r)

SpecCompile == Init /\ [][CompileNext]_vars

\* The rules with one marker behind a run of backslashes are compiled.
EscapeNext == \E r \in RunRules : PathInit(r)

SpecEscape == Init /\ [][EscapeNext]_vars

\* A Path is built and matched once against a path.
Next ==
  \/ \E r \in MatchRules : PathInit(r)
  \/ \E p \in Paths : Match(1, p)

Spec == Init /\ [][Next]_vars

\* ---- threads in Path.match ----

\* A thread enters self.match(p).
Call(t, p) ==
  /\ self.status = "ok"
  /\ pc[t] = "idle"
  /\ pc' = [pc EXCEPT ![t] = "check"]
  /\ path' = [path EXCEPT ![t] = p]
  /\ result' = [result EXCEPT ![t] = NoResult]
  /\ UNCHANGED <<types, calls, fetched, self, tokens, match_regex, routes>>

\* if not hasattr(self, '_match_regex'):
Check(t) ==
  /\ pc[t] = "check"
  /\ pc' = [pc EXCEPT ![t] =
              IF match_regex = NoneVal THEN "store" ELSE "match"]
  /\ UNCHANGED <<types, calls, fetched, self, tokens, match_regex, path,
                 result, routes>>

\* self._match_regex = re.compile(self.pattern); rc is what re.compile does
Stored(t, rc) ==
  /\ match_regex' = IF rc = "ok" THEN CacheSource(self) ELSE match_regex
  /\ pc' = [pc EXCEPT ![t] = IF rc = "ok" THEN "match" ELSE "done"]
  /\ result' = [result EXCEPT ![t] =
                  IF rc = "ok" THEN NoResult
                  ELSE Outcome(IF rc = "error" THEN ReError ELSE "unsupported",
                               << >>, << >>, << >>)]

Store(t) ==
  /\ pc[t] = "store"
  /\ Stored(t, ReCompile(self.regex))
  /\ UNCHANGED <<types, calls, fetched, self, tokens, path, routes>>

\* match = self._match_regex.match(path) and the rest of match
Run(t) ==
  /\ pc[t] = "match"
  /\ result' = [result EXCEPT ![t] = MatchWith(match_regex, self, path[t])]
  /\ pc' = [pc EXCEPT ![t] = "done"]
  /\ UNCHANGED <<types, calls, fetched, self, tokens, match_regex, path,
                 routes>>

\* The call is over; the thread may call again.
Return(t) ==
  /\ pc[t] = "done"
  /\ pc' = [pc EXCEPT ![t] = "idle"]
  /\ UNCHANGED <<types, calls, fetched, self, tokens, match_regex, path,
                 result, routes>>

ThreadsNext ==
  \/ \E r \in ThreadRules : PathInit(r)
  \/ \E t \in Threads, p \in ThreadPaths : Call(t, p)
  \/ \E t \in Threads : Check(t)
  \/ \E t \in Threads : Store(t)
  \/ \E t \in Threads : Run(t)
  \/ \E t \in Threads : Return(t)

SpecThreads == Init /\ [][ThreadsNext]_vars

\* ---- the registry ----

Register(n, cls) ==
  /\ Len(calls) < Len(BuiltinCalls) + MaxRegisterCalls
  /\ types' = FiltersRegister(types, n, cls)
  /\ calls' = Append(calls, <<n, cls>>)
  /\ UNCHANGED <<fetched, self, tokens, match_regex, pc, path, result, routes>>

Fetch(n) ==
  /\ fetched' = [op |-> "fetch", name |-> n, value |-> FiltersFetch(types, n),
                 at |-> Len(calls)]
  /\ UNCHANGED <<types, calls, self, tokens, match_regex, pc, path, result,
                 routes>>

Parse(n) ==
  /\ fetched' = [op |-> "parse", name |-> n,
                 value |-> FiltersParse(types, n, NoneVal), at |-> Len(calls)]
  /\ UNCHANGED <<types, calls, self, tokens, match_regex, pc, path, result,
                 routes>>

FiltersNext ==
  \/ \E n \in RegisterNames, cls \in FilterClasses : Register(n, cls)
  \/ \E n \in RegisterNames : Fetch(n)
  \/ \E n \in RegisterNames : Parse(n)

SpecFilters == Init /\ [][FiltersNext]_vars

\* ---- the route list ----

\* route(rule, override=override)
RouteInit(rule, override) ==
  /\ self.status # "ok"
  /\ Len(routes) < MaxRoutes
  /\ Construct(rule, override, Eval(rule))
  /\ UNCHANGED <<types, calls, fetched, match_regex, pc, path, result, routes>>

\* route.__call__(handler): TornadoRoute.add(self)
RouteCall ==
  /\ self.status = "ok"
  /\ routes' = TornadoAdd(routes, self)
  /\ self' = NoPath
  /\ tokens' = << >>
  /\ UNCHANGED <<types, calls, fetched, match_regex, pc, path, result>>

RoutesNext ==
  \/ \E r \in RouteRules, o \in BOOLEAN : RouteInit(r, o)
  \/ RouteCall

SpecRoutes == Init /\ [][RoutesNext]_vars

\* ------------------------------------------------------------------------
\* Properties
\* ------------------------------------------------------------------------

\* The token stream holds no dynamic token.
OnlyLiterals(toks) == \A k \in 1..Len(toks) : toks[k].mode = NoneVal

\* C1: a rule in which _eval finds no dynamic token is compiled as a static
\* rule: its name and its pattern are the rule text itself and its filters
\* are empty.
C1_StaticRuleKeptVerbatim ==
  (self.status = "ok" /\ OnlyLiterals(tokens))
    => (self.name = self.rule /\ self.regex = self.rule
        /\ self.filters = << >>)

\* C1, the case: the marker-free rule "a/" was compiled, and it was escaped
\* and anchored like a dynamic one.
C1_StaticRuleRewritten ==
  /\ self.status = "ok"
  /\ self.rule = <<"a","/">>
  /\ tokens = << Literal(<<"a","/">>) >>
  /\ self.name = <<"a",BS,"/">>
  /\ self.regex = <<"^","(","a",BS,"/",")","$">>

\* The rule /x/<n:int> and what follows /x/ in a path (None if the path
\* does not start with /x/).
IntRule == <<"/","x","/">> \o IntSegment

SegmentOf(p) ==
  IF Len(p) >= 3 /\ SubSeq(p, 1, 3) = <<"/","x","/">>
  THEN SubSeq(p, 4, Len(p))
  ELSE NoneVal

\* The digits of a decimal integer text (None for any other text), and the
\* number a digit string denotes.
DecimalDigits(s) ==
  IF s # << >> /\ s[1] = "-" /\ Len(s) > 1
       /\ \A k \in 2..Len(s) : s[k] \in Digits
  THEN Tail(s)
  ELSE IF s # << >> /\ \A k \in 1..Len(s) : s[k] \in Digits THEN s
  ELSE NoneVal

DigitOf(c) == CHOOSE d \in 0..9 : DigitChars[d + 1] = c

RECURSIVE NumberOf(_)
NumberOf(ds) ==
  IF ds = << >> THEN 0
  ELSE 10 * NumberOf(SubSeq(ds, 1, Len(ds) - 1)) + DigitOf(ds[Len(ds)])

SignedNumberOf(s) ==
  IF s[1] = "-" THEN 0 - NumberOf(Tail(s)) ELSE NumberOf(s)

IsDecimal(s) == s # NoneVal /\ DecimalDigits(s) # NoneVal

IntArgs(s) == <<"n">> :> [type |-> "int", val |-> SignedNumberOf(s)]

\* The error the specification names for a failed conversion.
FilterConversionError == "FilterConversionError"

RejectedIn(pat, m) ==
  IF ~m.ok THEN {}
  ELSE {n \in DOMAIN pat.filters \cap DOMAIN m.caps :
          Convert(pat.filters[n], m.caps[n]).type = ValueError}

RejectedParams(pat, p) ==
  IF ReCompile(pat.regex) = "ok" THEN RejectedIn(pat, ReMatch(pat.regex, p))
  ELSE {}

\* C3: when the path satisfies the pattern and a converter rejects its
\* capture, match fails with a conversion error that carries the parameter
\* name and the raw value.
C3_ConversionErrorNamesParameter ==
  \A t \in Threads :
    (self.status = "ok" /\ pc[t] = "done"
       /\ RejectedParams(self, path[t]) # {})
      => /\ result[t].kind = FilterConversionError
         /\ result[t].name \in RejectedParams(self, path[t])
         /\ result[t].raw = ReMatch(self.regex, path[t]).caps[result[t].name]

\* C3, the case: 1.2.3 was matched against <f:float>, the float converter
\* rejected it, and match ended in a NameError.
C3_RejectedEndsInNameError ==
  /\ self.status = "ok" /\ self.rule = FloatSegment /\ pc[1] = "done"
  /\ path[1] = <<"1",".","2",".","3">>
  /\ RejectedParams(self, path[1]) = {<<"f">>}
  /\ result[1].kind = NameError

\* C4: a Path that was constructed never fails in match because its pattern
\* cannot be compiled.
C4_ConstructedPatternCompiles ==
  \A t \in Threads :
    (self.status = "ok" /\ pc[t] = "done") => result[t].kind # ReError

\* C4, the case: <a><a> was constructed, and its first match raised
\* re.error.
C4_DuplicateNameFailsInMatch ==
  /\ self.status = "ok"
  /\ self.rule = <<"<","a",">","<","a",">">>
  /\ pc[1] = "done"
  /\ result[1].kind = ReError

\* One literal token for the text s, none for the empty text.
LiteralIf(s) == IF s = << >> THEN << >> ELSE << Literal(s) >>

\* The self.rule is the marker m behind n backslashes, between pre and post.
IsRun(pre, n, m, post) ==
  self.status # "absent" /\ self.rule = RunRule(pre, n, m, post)

\* C5: a marker behind a run of N backslashes is escaped iff N is odd; an
\* escaped marker becomes literal text with the whole run dropped, and an
\* unescaped one becomes its dynamic token, the run dropped as well.
C5_EscapeDropsWholeRun ==
  \A pre \in Befores, n \in 0..MaxBackslashes, m \in Markers, post \in Afters :
    IsRun(pre, n, m, post)
      => tokens = IF n % 2 = 1
                  THEN << Literal(pre \o m.text \o post) >>
                  ELSE LiteralIf(pre) \o << m.tok >> \o << Literal(post) >>

\* C5, the case: the marker :b behind three backslashes was tokenized, and
\* it came out as literal text with no backslash left.
C5_ThreeBackslashesAllDropped ==
  /\ IsRun(<<"a">>, 3, [text |-> <<":","b">>,
                        tok  |-> Dynamic(<<"b">>, DefaultName, NoneVal)],
           << >>)
  /\ tokens = << Literal(<<"a",":","b">>) >>

\* C5 as stated: an escaped marker becomes literal text that keeps N-1 of
\* the N backslashes.
C5_EscapeDropsOneBackslash ==
  \A pre \in Befores, n \in 0..MaxBackslashes, m \in Markers, post \in Afters :
    (IsRun(pre, n, m, post) /\ n % 2 = 1)
      => tokens = << Literal(pre \o Repeat(BS, n - 1) \o m.text \o post) >>

\* The names of the named dynamic tokens: the rule's parameter names.
ParamNames(toks) ==
  {toks[k].key : k \in {j \in 1..Len(toks) :
                          toks[j].mode # NoneVal /\ toks[j].key # NoneVal}}

\* The names of the named groups an inline configuration declares itself:
\* every (?P<name> behind an even number of backslashes.
Backslashes(c, i) ==
  i - 1 - (CHOOSE k \in 0..(i - 1) :
             /\ \A j \in (k + 1)..(i - 1) : c[j] = BS
             /\ (k = 0 \/ c[k] # BS))

NamedGroupAt(c, i) ==
  /\ i + 3 <= Len(c)
  /\ SubSeq(c, i, i + 3) = <<"(","?","P","<">>
  /\ Backslashes(c, i) % 2 = 0
  /\ IndexOf(c, i + 4, ">") <= Len(c)

GroupNamesIn(c) ==
  IF c = NoneVal THEN {}
  ELSE {Slice(c, i + 4, IndexOf(c, i + 4, ">")) :
          i \in {j \in 1..Len(c) : NamedGroupAt(c, j)}}

ConfGroupNames(toks) ==
  UNION {GroupNamesIn(toks[k].conf) :
           k \in {j \in 1..Len(toks) : toks[j].mode # NoneVal}}

\* What a token adds to the pattern: a named group for a named segment, a
\* non-capturing group for an unnamed one, escaped text for a literal.
SegmentPattern(tys, tok) ==
  IF tok.mode = NoneVal THEN ReEscape(tok.key)
  ELSE IF tok.key = NoneVal
  THEN <<"(","?",":">> \o FiltersParse(tys, tok.mode, tok.conf).mask
       \o <<")">>
  ELSE <<"(","?","P","<">> \o tok.key \o <<">">>
       \o FiltersParse(tys, tok.mode, tok.conf).mask \o <<")">>

RECURSIVE PatternOf(_, _)
PatternOf(tys, toks) ==
  IF toks = << >> THEN << >>
  ELSE SegmentPattern(tys, Head(toks)) \o PatternOf(tys, Tail(toks))

\* C6: an unnamed segment adds a non-capturing group to the pattern and no
\* entry to filters, a named one exactly one entry; a successful match
\* returns the rule's parameter names and the names of the named groups
\* that inline configurations declare, and nothing for an unnamed segment.
C6_FiltersAndKeys ==
  self.status = "ok"
    => /\ DOMAIN self.filters = ParamNames(tokens)
       /\ self.regex = Anchor(PatternOf(types, tokens))
       /\ \A t \in Threads :
            (pc[t] = "done" /\ result[t].kind = "ok")
              => DOMAIN result[t].args
                   = ParamNames(tokens) \cup ConfGroupNames(tokens)

\* C6, the case: /x/abc was matched against /x/<:path> and the mapping
\* returned is empty.
C6_CatchAllGivesNoEntry ==
  /\ self.status = "ok"
  /\ self.rule = <<"/","x","/","<",":","p","a","t","h",">">>
  /\ self.filters = << >>
  /\ pc[1] = "done"
  /\ path[1] = <<"/","x","/","a","b","c">>
  /\ result[1] = Outcome("ok", << >>, << >>, << >>)

\* C6 as stated: a successful match returns exactly the rule's parameter
\* names as keys.
C6_KeysAreParamNames ==
  \A t \in Threads :
    (self.status = "ok" /\ pc[t] = "done" /\ result[t].kind = "ok")
      => DOMAIN result[t].args = ParamNames(tokens)

\* An inline configuration with every unescaped (?: opener written as (.
RECURSIVE PlainOpeners(_, _)
PlainOpeners(c, i) ==
  IF i > Len(c) THEN << >>
  ELSE IF c[i] = BS
  THEN SubSeq(c, i, IF i < Len(c) THEN i + 1 ELSE i)
       \o PlainOpeners(c, i + 2)
  ELSE IF i + 2 <= Len(c) /\ SubSeq(c, i, i + 2) = <<"(","?",":">>
  THEN <<"(">> \o PlainOpeners(c, i + 3)
  ELSE << c[i] >> \o PlainOpeners(c, i + 1)

ConfAlike(c, d) ==
  IF c = NoneVal \/ d = NoneVal THEN c = d
  ELSE PlainOpeners(c, 1) = PlainOpeners(d, 1)

\* Two token streams that differ in parameter names and in ( versus (?:
\* openers of inline configurations only.
TokenAlike(a, b) ==
  IF a.mode = NoneVal \/ b.mode = NoneVal THEN a = b
  ELSE a.mode = b.mode /\ ConfAlike(a.conf, b.conf)

TokensAlike(s, t) ==
  Len(s) = Len(t) /\ \A k \in 1..Len(s) : TokenAlike(s[k], t[k])

\* A pattern with every unescaped group opener, (?P<name> and (?: too,
\* written as (.
RECURSIVE Openers(_, _)
Openers(p, i) ==
  IF i > Len(p) THEN << >>
  ELSE IF p[i] = BS
  THEN SubSeq(p, i, IF i < Len(p) THEN i + 1 ELSE i) \o Openers(p, i + 2)
  ELSE IF i + 2 <= Len(p) /\ SubSeq(p, i, i + 2) = <<"(","?",":">>
  THEN <<"(">> \o Openers(p, i + 3)
  ELSE IF i + 3 <= Len(p) /\ SubSeq(p, i, i + 3) = <<"(","?","P","<">>
  THEN <<"(">> \o Openers(p, IndexOf(p, i, ">") + 1)
  ELSE << p[i] >> \o Openers(p, i + 1)

\* Every unescaped group opener of the name is (?:.
RECURSIVE OnlyNonCapturing(_, _)
OnlyNonCapturing(p, i) ==
  IF i > Len(p) THEN TRUE
  ELSE IF p[i] = BS THEN OnlyNonCapturing(p, i + 2)
  ELSE IF p[i] = "("
  THEN /\ i + 2 <= Len(p)
       /\ SubSeq(p, i, i + 2) = <<"(","?",":">>
       /\ OnlyNonCapturing(p, i + 3)
  ELSE OnlyNonCapturing(p, i + 1)

\* The pattern between the anchors ^( and )$.
Unanchored(regex) == SubSeq(regex, 3, Len(regex) - 2)

\* C7: routes whose token streams differ only in parameter names and in
\* ( versus (?: openers of inline configurations have equal names, so
\* __eq__ holds of them; a name is its pattern with every unescaped group
\* opener turned into (?: and every escaped parenthesis left as it is.
C7_NameIgnoresGrouping ==
  /\ \A i, j \in 1..Len(routes) :
       TokensAlike(Eval(routes[i].rule), Eval(routes[j].rule))
         => (routes[i].name = routes[j].name /\ PathEq(routes[i], routes[j]))
  /\ \A i \in 1..Len(routes) :
       /\ Openers(routes[i].name, 1)
            = Openers(Unanchored(routes[i].regex), 1)
       /\ OnlyNonCapturing(routes[i].name, 1)

\* C7, the case: the routes <a::(x)> and <b::(?:x)> are both in the list
\* with one name, and so is a route with an escaped parenthesis.
C7_GroupingStylesShareName ==
  /\ Len(routes) = 2
  /\ routes[1].rule = <<"<","a",":",":","(","x",")",">">>
  /\ routes[2].rule = <<"<","b",":",":","(","?",":","x",")",">">>
  /\ routes[1].name = <<"(","?",":","(","?",":","x",")",")">>
  /\ routes[2].name = routes[1].name

\* C8: every finished match call of a thread has the outcome the call has
\* when run alone; the cache holds nothing but the compilation of the
\* route's pattern; the route is what its construction made it.
C8_ThreadsMatchAsAlone ==
  /\ \A t \in Threads :
       pc[t] = "done" => result[t] = MatchAlone(self, NoneVal, path[t])
  /\ match_regex # NoneVal
       => (self.status = "ok" /\ match_regex = self.regex
           /\ ReCompile(self.regex) = "ok")
  /\ self.status = "ok"
       => self = NewPath(self.rule, TRUE, ProcessRule(BuiltinTypes, self.rule))

\* C8, the case: thread 1 has stored the cache and finished its call while
\* thread 2, which found no cache, is about to store it again.
C8_SecondStorePending ==
  /\ pc[1] = "done" /\ result[1].kind = "ok"
  /\ pc[2] = "store"
  /\ match_regex # NoneVal

\* The class of the last register call for name n among the first k calls,
\* KeyError if there is none.
RECURSIVE LastRegistered(_, _, _)
LastRegistered(log, k, n) ==
  IF k = 0 THEN KeyError
  ELSE IF log[k][1] = n THEN log[k][2]
  ELSE LastRegistered(log, k - 1, n)

\* The names the registry is asked for.
AskedNames == RegisterNames \cup DOMAIN BuiltinTypes

\* C9: fetch gives the class of the most recent register call for the name,
\* a register call changes no other name, and fetch and parse of a name
\* never registered raise KeyError.
C9_LastRegistrationWins ==
  /\ \A n \in AskedNames :
       FiltersFetch(types, n) = LastRegistered(calls, Len(calls), n)
  /\ fetched.op = "fetch"
       => fetched.value = LastRegistered(calls, fetched.at, fetched.name)
  /\ fetched.op = "parse"
       => IF LastRegistered(calls, fetched.at, fetched.name) = KeyError
          THEN fetched.value.conv = KeyError
          ELSE fetched.value
                 = ClassParse(LastRegistered(calls, fetched.at, fetched.name),
                              NoneVal)

\* C9, the case: int was registered again, twice, and fetch gave the class
\* of the second call; a name never registered was fetched, too.
C9_Reregistered ==
  /\ Len(calls) = Len(BuiltinCalls) + 2
  /\ calls[Len(calls) - 1] = <<IntName, PathFilter>>
  /\ calls[Len(calls)] = <<IntName, ReFilter>>
  /\ fetched = [op |-> "fetch", name |-> IntName, value |-> ReFilter,
                at |-> Len(calls)]

\* C10: the list never holds a non-overriding route behind a route of the
\* same name.
C10_NoDuplicateWithoutOverride ==
  \A i, j \in 1..Len(routes) :
    (i < j /\ ~routes[j].override) => routes[i].name # routes[j].name

\* C10, the case: /a was added twice, the second time without override,
\* and is in the list twice.
C10_DuplicateAppended ==
  /\ Len(routes) = 2
  /\ routes[1].rule = <<"/","a">>
  /\ routes[2].rule = <<"/","a">>
  /\ ~routes[2].override
  /\ PathEq(routes[1], routes[2])
====
